---- MODULE Spec2Model ----
(***************************************************************************)
(* Model of strategy_momentum_score.py: the helpers get_return and         *)
(* get_momentum and the four Moonshot overrides of UpMinusDown             *)
(* (prices_to_signals, target_weights_to_positions,                        *)
(* positions_to_gross_returns).                                            *)
(*                                                                         *)
(* Number representation.  A pandas cell is either missing or a number.    *)
(* A missing cell is NaN == <<>>; a known cell is a one- or two-element    *)
(* tuple, so that the two never compare equal.  Arithmetic is exact:       *)
(*   - a return p/q - 1 is the integer e with p/q - 1 = e / RetScale       *)
(*     (RetScale is chosen so that the division is exact on PriceValues);  *)
(*   - a rolling sample variance over n returns e_1..e_n is the integer    *)
(*     W = n*Sum(e^2) - Sum(e)^2, the variance being                       *)
(*     W / (n*(n-1)*RetScale^2);                                           *)
(*   - a momentum score ret / (0.05 + vol) is the pair <<e, W>>; scores    *)
(*     are only ever ranked, and CmpScore decides their order exactly.     *)
(***************************************************************************)
EXTENDS Integers, Sequences, FiniteSets, TLC

\* ---------------------------------------------------------------- bounds
NumDates == 6          \* rows of the price panel
DaysPerMonth == 3      \* calendar days in one rebalance period ("M")
MaxWindow == 2         \* largest MOMENTUM_WINDOW / VOLATILITY_WINDOW tried

\* ------------------------------------------------------ program constants
PRICE_LOWER_LIMIT == 100
WEEKLY_WINDOW == 5
ESCAPE_LIMIT_DEN == 10     \* ESCAPE_WEEKLY_CHANGE_LIMIT = 0.1 = 1/10
VOL_FLOOR_DEN == 20        \* the 0.05 of get_momentum = 1/20
PCT_DEN == 100             \* top_n_pct = TOP_N_PCT / 100

_SID_SNP500 == "FIBBG000BDTBL9"
Sids == {_SID_SNP500, "A", "B"}

NaN == <<>>
None == <<>>
Known(x) == x # NaN

Rows == 1..NumDates

\* Prices of the model: multiples of PRICE_LOWER_LIMIT, the smallest one at
\* the limit itself (masked by the strict comparison of line 68).
PriceValues == {PRICE_LOWER_LIMIT * k : k \in {1, 2, 4}}

\* Smallest scale at which every return p/q - 1 over PriceValues is an integer.
RetScale ==
  CHOOSE s \in 1..8 :
    /\ \A p \in PriceValues, q \in PriceValues : ((p - q) * s) % q = 0
    /\ \A r \in 1..(s - 1) :
         \E p \in PriceValues, q \in PriceValues : ((p - q) * r) % q # 0

Sgn(x) == IF x > 0 THEN 1 ELSE IF x < 0 THEN -1 ELSE 0

RECURSIVE Gcd(_, _)
Gcd(a, b) == IF b = 0 THEN a ELSE Gcd(b, a % b)

\* ------------------------------------------------------------ get_return
\* df / df.shift(interval) - 1.0 for one column: missing in the first
\* `interval` rows and wherever either price is missing.
get_return(col, interval, t) ==
  IF t <= interval THEN NaN
  ELSE IF ~Known(col[t]) \/ ~Known(col[t - interval]) THEN NaN
  ELSE <<((col[t][1] - col[t - interval][1]) * RetScale) \div col[t - interval][1]>>

RECURSIVE SumOver(_, _, _)
SumOver(f, lo, hi) == IF lo > hi THEN 0 ELSE f[lo] + SumOver(f, lo + 1, hi)

\* daily_return.rolling(interval_vol).std(): sample standard deviation
\* (ddof = 1) of the last interval_vol daily returns; missing until the
\* window holds interval_vol known returns, and missing for a window of one
\* observation (n - ddof = 0).  The result is the variance numerator W.
rolling_std(col, interval_vol, t) ==
  IF t < interval_vol THEN NaN
  ELSE
    LET win == (t - interval_vol + 1)..t
        dr  == [u \in win |-> get_return(col, 1, u)]
    IN IF \E u \in win : ~Known(dr[u]) THEN NaN
       ELSE IF interval_vol < 2 THEN NaN
       ELSE LET e  == [u \in win |-> dr[u][1]]
                sq == [u \in win |-> e[u] * e[u]]
                s1 == SumOver(e, t - interval_vol + 1, t)
                s2 == SumOver(sq, t - interval_vol + 1, t)
            IN <<interval_vol * s2 - s1 * s1>>

\* get_momentum with a missing volatility read as zero.
get_momentum_fillna(col, interval_return, interval_vol, t) ==
  LET ret == get_return(col, interval_return, t)
      vol == rolling_std(col, interval_vol, t)
  IN IF ~Known(ret) THEN NaN
     ELSE IF Known(vol) THEN <<ret[1], vol[1]>> ELSE <<ret[1], 0>>

\* ----------------------------------------------------------- get_momentum
\* momentum = ret / (0.05 + vol): missing when ret or vol is missing.
get_momentum(col, interval_return, interval_vol, t) ==
  LET ret == get_return(col, interval_return, t)
      vol == rolling_std(col, interval_vol, t)
  IN IF Known(ret) /\ Known(vol) THEN <<ret[1], vol[1]>> ELSE NaN

\* Exact order of two known momentum scores over the same volatility window n.
\* With S = RetScale, F = VOL_FLOOR_DEN, K = n*(n-1), a score <<e, W>> is
\*   (e/S) / (1/F + Sqrt(W/K)/S) = e*F*Sqrt(K) / (S*Sqrt(K) + F*Sqrt(W)),
\* the denominator being positive, so that  s1 < s2  iff
\*   S*(e1 - e2)*Sqrt(K)  <  F*(e2*Sqrt(W1) - e1*Sqrt(W2)).
\* SgnRoot(z, m, q) is the sign of z + m*Sqrt(q), q >= 0.
SgnRoot(z, m, q) ==
  LET sm == IF q = 0 THEN 0 ELSE Sgn(m)
      sz == Sgn(z)
  IN IF sm = 0 THEN sz
     ELSE IF sz = 0 \/ sz = sm THEN sm
     ELSE sz * Sgn(z * z - m * m * q)

\* RetScale : VOL_FLOOR_DEN in lowest terms.
ScaleGcd == Gcd(RetScale, VOL_FLOOR_DEN)
ScaleS == RetScale \div ScaleGcd
ScaleF == VOL_FLOOR_DEN \div ScaleGcd

\* -1, 0, 1 as score s1 is below, equal to, above score s2.
CmpScore(s1, s2, n) ==
  LET a  == ScaleS * (s1[1] - s2[1])
      K  == n * (n - 1)
      \* sign of X = a*Sqrt(K) and of Y = f*(e2*Sqrt(W1) - e1*Sqrt(W2))
      sx == Sgn(a)
      sy == Sgn(Sgn(s2[1]) * s2[1] * s2[1] * s1[2]
                - Sgn(s1[1]) * s1[1] * s1[1] * s2[2])
  IN IF sx # sy THEN (IF sx > sy THEN 1 ELSE -1)
     ELSE IF sx = 0 THEN 0
     ELSE \* X^2 - Y^2 = z + m*Sqrt(W1*W2)
          sx * SgnRoot(a * a * K
                         - ScaleF * ScaleF
                             * (s2[1] * s2[1] * s1[2] + s1[1] * s1[1] * s2[2]),
                       2 * ScaleF * ScaleF * s1[1] * s2[1],
                       s1[2] * s2[2])

\* --------------------------------------------------- prices_to_signals
\* closes.where(closes > PRICE_LOWER_LIMIT): a close at or below the limit,
\* or a missing close (written 0 in a price panel), becomes missing.
closes_where(prices) ==
  [i \in DOMAIN prices |->
     [t \in DOMAIN prices[i] |->
        IF prices[i][t] > PRICE_LOWER_LIMIT THEN <<prices[i][t]>> ELSE NaN]]

\* rank with the `ascending` argument dropped: always descending.
rank_descending(ms, n, ascending, i) ==
  IF ~Known(ms[i]) THEN NaN
  ELSE <<2 * Cardinality({j \in DOMAIN ms : Known(ms[j]) /\
                            CmpScore(ms[j], ms[i], n) = 1})
           + Cardinality({j \in DOMAIN ms : Known(ms[j]) /\
                            CmpScore(ms[j], ms[i], n) = 0}) + 1>>

\* DataFrame.rank(axis=1, ascending=...), method "average", missing scores
\* kept missing: twice the rank of instrument i among the known scores ms.
rank(ms, n, ascending, i) ==
  IF ~Known(ms[i]) THEN NaN
  ELSE <<2 * Cardinality({j \in DOMAIN ms : Known(ms[j]) /\
                            CmpScore(ms[j], ms[i], n) = (IF ascending THEN -1 ELSE 1)})
           + Cardinality({j \in DOMAIN ms : Known(ms[j]) /\
                            CmpScore(ms[j], ms[i], n) = 0}) + 1>>

\* Number of instruments with a known score: the divisor of rank(pct=True).
rank_count(ms) == Cardinality({j \in DOMAIN ms : Known(ms[j])})

\* candidates with the thresholds compared by < instead of <=.
candidates_strict(self, ms, ascending, i) ==
  \E r \in {rank(ms, self.VOLATILITY_WINDOW, ascending, i)} :
    IF self.TOP_N_PCT # None
      THEN Known(r) /\ r[1] * PCT_DEN < 2 * self.TOP_N_PCT[1] * rank_count(ms)
    ELSE IF self.TOP_N_COUNT # None
      THEN Known(r) /\ r[1] < 2 * self.TOP_N_COUNT[1]
    ELSE FALSE

\* lines 81-98: is instrument i a long (descending rank) or short (ascending
\* rank) candidate of the row?  A missing rank compares False.
candidates(self, ms, ascending, i) ==
  \E r \in {rank(ms, self.VOLATILITY_WINDOW, ascending, i)} :
    IF self.TOP_N_PCT # None
      THEN Known(r) /\ r[1] * PCT_DEN <= 2 * self.TOP_N_PCT[1] * rank_count(ms)
    ELSE IF self.TOP_N_COUNT # None
      THEN Known(r) /\ r[1] <= 2 * self.TOP_N_COUNT[1]
    ELSE FALSE

\* weekly_returns < -ESCAPE_WEEKLY_CHANGE_LIMIT, False on a missing return.
escape_long(wr) == Known(wr) /\ wr[1] * ESCAPE_LIMIT_DEN < -RetScale
\* escape_short with the long side's comparison.
escape_short_as_long(wr) == Known(wr) /\ wr[1] * ESCAPE_LIMIT_DEN < -RetScale
\* weekly_returns > ESCAPE_WEEKLY_CHANGE_LIMIT
escape_short(wr) == Known(wr) /\ wr[1] * ESCAPE_LIMIT_DEN > RetScale

\* longs_at with the escape read from the benchmark's weekly return.
longs_at_benchmark(self, ms, wr, i) ==
  IF escape_long(wr[_SID_SNP500]) THEN 0
  ELSE IF candidates(self, ms, FALSE, i) THEN 1 ELSE 0

\* lines 104, 106: longs = neutral.where(weekly_returns < -limit, longs).astype(int)
longs_at(self, ms, wr, i) ==
  IF escape_long(wr[i]) THEN 0
  ELSE IF candidates(self, ms, FALSE, i) THEN 1 ELSE 0

\* lines 105, 107: shorts = -neutral.where(weekly_returns > limit, shorts).astype(int)
shorts_at(self, ms, wr, i) ==
  IF escape_short(wr[i]) THEN 0
  ELSE IF candidates(self, ms, TRUE, i) THEN -1 ELSE 0

\* lines 110-115
combine(self, l, s) ==
  IF self.LONG_ONLY THEN l
  ELSE IF self.SHORT_ONLY THEN s
  ELSE IF l = 1 THEN l ELSE s

\* lines 100-115 on one row: the longs and the shorts of the row from its
\* momentum scores ms and weekly returns wr, then their combination.
signal_row(self, ms, wr) ==
  CHOOSE row \in
    { [i \in Sids |-> combine(self, longs[i], shorts[i])] :
        longs  \in {[i \in Sids |-> longs_at(self, ms, wr, i)]},
        shorts \in {[i \in Sids |-> shorts_at(self, ms, wr, i)]} } : TRUE

\* Row t of the daily signal panel before rebalancing (lines 67-115): an
\* integer per instrument.  (The scores and returns of the row are bound
\* once, as members of singleton sets.)
daily_signals(self, closes, t) ==
  CHOOSE row \in
    { signal_row(self, ms, wr) :
        ms \in {[i \in Sids |-> get_momentum(closes[i], self.MOMENTUM_WINDOW,
                                              self.VOLATILITY_WINDOW, t)]},
        wr \in {[i \in Sids |-> get_return(closes[i], WEEKLY_WINDOW, t)]} } : TRUE

\* The rebalance period ("M") of a calendar day, and the day that labels it
\* (the period's last calendar day, whether or not it is a row of the index).
period(day) == (day - 1) \div DaysPerMonth
period_end(m) == (m + 1) * DaysPerMonth

\* The periods signals.resample(REBALANCE_INTERVAL) makes rows for: every
\* period from the first date's to the last date's.
resample_periods(index) == period(index[1])..period(index[Len(index)])

\* signals.resample(REBALANCE_INTERVAL).last(): the row of period m, labelled
\* by the period end, holds the last daily row of the period and is missing
\* when the period has no row.
resample_last(self, index, closes, m) ==
  LET rows == {t \in DOMAIN index : period(index[t]) = m}
  IN IF rows = {} THEN [i \in Sids |-> NaN]
     ELSE CHOOSE row \in
            { [i \in Sids |-> <<daily[i]>>] :
                daily \in {daily_signals(self, closes,
                             CHOOSE t \in rows : \A u \in rows : u <= t)} } : TRUE

\* reindex with method="bfill": the earliest label at or after the date.
reindex_bfill(index, resampled, t) ==
  LET labels == {m \in DOMAIN resampled : period_end(m) >= index[t]}
  IN IF labels = {} THEN [i \in Sids |-> NaN]
     ELSE resampled[CHOOSE m \in labels : \A k \in labels : m <= k]

\* signals.reindex(closes.index, method="ffill"): the date of row t takes the
\* resampled row of the latest label at or before it, missing when there is
\* none.
reindex_ffill(index, resampled, t) ==
  LET labels == {m \in DOMAIN resampled : period_end(m) <= index[t]}
  IN IF labels = {} THEN [i \in Sids |-> NaN]
     ELSE resampled[CHOOSE m \in labels : \A k \in labels : k <= m]

\* Neither branch of lines 81-98 runs, and line 100 reads `longs`, a name
\* that was never assigned: the call raises.
longs_unbound(self) == self.TOP_N_PCT = None /\ self.TOP_N_COUNT = None

\* prices_to_signals without lines 119-120: the daily signals are returned.
prices_to_signals_daily(self, index, prices) ==
  CHOOSE out \in
    { [t \in Rows |-> [i \in Sids |-> <<daily_signals(self, closes, t)[i]>>]] :
        closes \in {closes_where(prices)} } : TRUE

\* prices_to_signals (lines 62-122), for a configuration that reaches line
\* 100.  EWM_COM is None, so lines 70 and 74 do not run; df_snp500_returns
\* (lines 72-75) is computed and never read.
prices_to_signals(self, index, prices) ==
  CHOOSE out \in
    { [t \in Rows |-> reindex_ffill(index, resampled, t)] :
        resampled \in
          { [m \in resample_periods(index) |-> resample_last(self, index, closes, m)] :
              closes \in {closes_where(prices)} } } : TRUE

\* ------------------------------------ target_weights_to_positions, gross
\* A rational cell is <<numerator, denominator>>, denominator > 0.
\* DataFrame.shift(): row t takes row t - 1, the first row is missing.
shift(panel) ==
  [i \in DOMAIN panel |->
     [t \in DOMAIN panel[i] |-> IF t = 1 THEN NaN ELSE panel[i][t - 1]]]

\* target_weights_to_positions without the shift.
target_weights_unshifted(weights) == weights

\* target_weights_to_positions (line 143)
target_weights_to_positions(weights) == shift(weights)

\* opens.pct_change(): open[t] / open[t-1] - 1 as a rational, missing in the
\* first row (every open of the model is known, so nothing is padded).
pct_change(opens) ==
  [i \in DOMAIN opens |->
     [t \in DOMAIN opens[i] |->
        IF t = 1 THEN NaN
        ELSE <<opens[i][t] - opens[i][t - 1], opens[i][t - 1]>>]]

\* Cell-wise product of two panels, missing when either factor is missing.
times(x, y) ==
  [i \in DOMAIN x |->
     [t \in DOMAIN x[i] |->
        IF Known(x[i][t]) /\ Known(y[i][t])
          THEN <<x[i][t][1] * y[i][t][1], x[i][t][2] * y[i][t][2]>>
          ELSE NaN]]

\* positions_to_gross_returns (lines 153-157)
positions_to_gross_returns(positions, opens) ==
  times(pct_change(opens), shift(positions))

\* ------------------------------------------------------------------ state
VARIABLES
  self,             \* the strategy's class-level configuration
  index,            \* the panel's DatetimeIndex: the calendar day of each row
  prices,           \* call -> the "Close" field of the price panel passed
  pc,               \* call -> where the call stands
  signals,          \* call -> the panel prices_to_signals returned
  df,               \* get_momentum's price column
  interval_return,  \* get_momentum's arguments
  interval_vol,
  momentum,         \* the column get_momentum returned
  weights,          \* the weight panel given to target_weights_to_positions
  opens,            \* the "Open" field of the price panel
  positions,        \* the panel target_weights_to_positions returned
  gross_returns     \* the panel positions_to_gross_returns returned

vars == <<self, index, prices, pc, signals, df, interval_return, interval_vol,
          momentum, weights, opens, positions, gross_returns>>

signal_vars == <<self, index, prices, signals>>
momentum_vars == <<df, interval_return, interval_vol, momentum>>
lag_vars == <<weights, opens, positions, gross_returns>>

\* ----------------------------------------------------------------- inputs
Lo == PRICE_LOWER_LIMIT
Mid == 2 * PRICE_LOWER_LIMIT
Hi == 4 * PRICE_LOWER_LIMIT

\* From which price to which a column steps: flat, masked throughout, up,
\* down, from masked to known, from known to masked.
StepPairs == {<<Hi, Hi>>, <<Lo, Lo>>, <<Mid, Hi>>, <<Hi, Mid>>, <<Lo, Hi>>, <<Hi, Lo>>}

\* A price column that holds one value up to row c - 1 and another from row c.
StepSeries ==
  {[t \in Rows |-> IF t < c THEN bv[1] ELSE bv[2]] : bv \in StepPairs, c \in 2..NumDates}

FlatSeries == {[t \in Rows |-> b] : b \in {Lo, Hi}}

Panels ==
  {p \in [Sids -> StepSeries] : p[_SID_SNP500] \in FlatSeries}

\* Panels of the two-call comparisons.
SmallPanels ==
  {p \in [Sids -> StepSeries] : p[_SID_SNP500] \in FlatSeries /\ p["B"] \in FlatSeries}

\* Daily calendars: every day a row; no row on a period's last day; a period
\* without rows.
Calendars ==
  { [t \in Rows |-> t],
    [t \in Rows |-> t + (t - 1) \div (DaysPerMonth - 1)],
    [t \in Rows |-> IF t <= DaysPerMonth THEN t ELSE t + DaysPerMonth] }

Windows == 1..MaxWindow

\* TOP_N_PCT and TOP_N_COUNT: neither set, one of them set, both set.
SelectionModes ==
  { <<None, None>>, <<<<50>>, None>>, <<<<70>>, None>>,
    <<None, <<1>>>>, <<None, <<2>>>>, <<<<50>>, <<1>>>> }

\* LONG_ONLY and SHORT_ONLY: at most one of them set.
Directions == {<<FALSE, FALSE>>, <<TRUE, FALSE>>, <<FALSE, TRUE>>}

\* The class-level configurations tried.
Configs ==
  { [ TOP_N_PCT |-> m[1], TOP_N_COUNT |-> m[2],
      LONG_ONLY |-> d[1], SHORT_ONLY |-> d[2],
      MOMENTUM_WINDOW |-> w, VOLATILITY_WINDOW |-> 2 ] :
      m \in SelectionModes, d \in Directions, w \in {1, 2} }

\* Exactly one selection mode, longs and shorts combined.
PlainConfigs ==
  {c \in Configs : /\ (c.TOP_N_PCT = None) # (c.TOP_N_COUNT = None)
                   /\ ~c.LONG_ONLY /\ ~c.SHORT_ONLY}

\* Two panels that differ in the benchmark's closes only.
BenchmarkPairs ==
  {<<p, [p EXCEPT ![_SID_SNP500] = s]>> : p \in SmallPanels, s \in StepSeries}

\* Two panels that agree on every row up to a cut.
LookAheadPairs ==
  {<<p, [p EXCEPT ![i] = [t \in Rows |-> IF t <= cut THEN p[i][t] ELSE v]]>> :
     p \in SmallPanels, i \in Sids, cut \in Rows, v \in PriceValues}

NoSignalCall ==
  /\ self = <<>> /\ index = <<>> /\ prices = <<>> /\ signals = <<>>
NoMomentumCall ==
  /\ df = <<>> /\ interval_return = 0 /\ interval_vol = 0 /\ momentum = <<>>
NoLagCall ==
  /\ weights = <<>> /\ opens = <<>> /\ positions = <<>> /\ gross_returns = <<>>

Init ==
  /\ self \in Configs
  /\ index \in Calendars
  /\ prices \in [{1} -> Panels]
  /\ pc = [r \in {1} |-> "ready"]
  /\ signals = [r \in {1} |-> <<>>]
  /\ NoMomentumCall /\ NoLagCall

InitBenchmark ==
  /\ self \in PlainConfigs
  /\ index \in Calendars
  /\ prices \in BenchmarkPairs
  /\ pc = [r \in {1, 2} |-> "ready"]
  /\ signals = [r \in {1, 2} |-> <<>>]
  /\ NoMomentumCall /\ NoLagCall

InitLookAhead ==
  /\ self \in PlainConfigs
  /\ index \in Calendars
  /\ prices \in LookAheadPairs
  /\ pc = [r \in {1, 2} |-> "ready"]
  /\ signals = [r \in {1, 2} |-> <<>>]
  /\ NoMomentumCall /\ NoLagCall

InitMomentum ==
  /\ df \in [Rows -> {<<v>> : v \in PriceValues}]
  /\ interval_return \in Windows
  /\ interval_vol \in Windows
  /\ momentum = <<>>
  /\ pc = [r \in {1} |-> "ready"]
  /\ NoSignalCall /\ NoLagCall

WeightValues == {<<-1, 2>>, <<0, 1>>, <<1, 1>>}

InitLag ==
  /\ weights \in [{"A"} -> [Rows -> WeightValues]]
  /\ opens \in [{"A"} -> {s \in StepSeries : s[1] # s[NumDates]}]
  /\ positions = <<>>
  /\ gross_returns = <<>>
  /\ pc = [r \in {1} |-> "weights"]
  /\ NoSignalCall /\ NoMomentumCall

\* ---------------------------------------------------------------- actions
\* One call of prices_to_signals, on the panel of call r; the calls of a
\* comparison run one after the other.
PricesToSignals(r) ==
  /\ pc[r] = "ready"
  /\ \A q \in DOMAIN pc : q < r => pc[q] # "ready"
  /\ IF longs_unbound(self)
       THEN /\ pc' = [pc EXCEPT ![r] = "raised"]
            /\ signals' = signals
       ELSE /\ pc' = [pc EXCEPT ![r] = "returned"]
            /\ signals' = [signals EXCEPT ![r] = prices_to_signals(self, index, prices[r])]
  /\ UNCHANGED <<self, index, prices>>
  /\ UNCHANGED <<momentum_vars, lag_vars>>

\* One call of get_momentum on the column df.
GetMomentum ==
  /\ pc[1] = "ready"
  /\ momentum' = [t \in Rows |-> get_momentum(df, interval_return, interval_vol, t)]
  /\ pc' = [pc EXCEPT ![1] = "returned"]
  /\ UNCHANGED <<df, interval_return, interval_vol>>
  /\ UNCHANGED <<signal_vars, lag_vars>>

\* The engine hands the weight panel to target_weights_to_positions ...
TargetWeightsToPositions ==
  /\ pc[1] = "weights"
  /\ positions' = target_weights_to_positions(weights)
  /\ pc' = [pc EXCEPT ![1] = "positions"]
  /\ UNCHANGED <<weights, opens, gross_returns>>
  /\ UNCHANGED <<signal_vars, momentum_vars>>

\* ... and the positions to positions_to_gross_returns.
PositionsToGrossReturns ==
  /\ pc[1] = "positions"
  /\ gross_returns' = positions_to_gross_returns(positions, opens)
  /\ pc' = [pc EXCEPT ![1] = "gross_returns"]
  /\ UNCHANGED <<weights, opens, positions>>
  /\ UNCHANGED <<signal_vars, momentum_vars>>

Next == \E r \in DOMAIN prices : PricesToSignals(r)
NextMomentum == GetMomentum
NextLag == TargetWeightsToPositions \/ PositionsToGrossReturns

Spec == Init /\ [][Next]_vars
SpecBenchmark == InitBenchmark /\ [][Next]_vars
SpecLookAhead == InitLookAhead /\ [][Next]_vars
SpecMomentum == InitMomentum /\ [][NextMomentum]_vars
SpecLag == InitLag /\ [][NextLag]_vars

\* ================================================================= claims
Returned(r) == r \in DOMAIN pc /\ pc[r] = "returned"

\* The daily row whose signals the returned panel carries on row t: the last
\* row of the latest period that ended on or before the date of row t; 0 when
\* no period has ended yet or that period has no row.
HeldFrom(t) ==
  LET ended == {m \in period(index[1])..period(index[NumDates]) :
                  (m + 1) * DaysPerMonth <= index[t]}
  IN IF ended = {} THEN 0
     ELSE LET m    == CHOOSE k \in ended : \A j \in ended : j <= k
              rows == {u \in Rows : period(index[u]) = m}
          IN IF rows = {} THEN 0 ELSE CHOOSE u \in rows : \A w \in rows : w <= u

\* The momentum scores of row t of call r's panel.
ScoresAt(r, t) ==
  [i \in Sids |-> get_momentum(closes_where(prices[r])[i], self.MOMENTUM_WINDOW,
                                self.VOLATILITY_WINDOW, t)]

Ranked(ms) == {i \in Sids : Known(ms[i])}

NoTies(ms) ==
  \A i \in Ranked(ms), j \in Ranked(ms) :
    i # j => CmpScore(ms[i], ms[j], self.VOLATILITY_WINDOW) # 0

\* The 5-row trailing return of instrument i on row t of panel p, from the
\* closes above PRICE_LOWER_LIMIT, is above 0.1 / below -0.1.
WeeklyAbove(p, i, t) ==
  /\ t > 5 /\ p[i][t] > PRICE_LOWER_LIMIT /\ p[i][t - 5] > PRICE_LOWER_LIMIT
  /\ 10 * (p[i][t] - p[i][t - 5]) > p[i][t - 5]
WeeklyBelow(p, i, t) ==
  /\ t > 5 /\ p[i][t] > PRICE_LOWER_LIMIT /\ p[i][t - 5] > PRICE_LOWER_LIMIT
  /\ 10 * (p[i][t] - p[i][t - 5]) < -p[i][t - 5]

CountOf(row, v) == Cardinality({i \in Sids : row[i] = <<v>>})

\* ---- C1 -----------------------------------------------------------------
\* C1 as stated, on the dates whose signals are known: in the panel
\* prices_to_signals returns, any two dates of the same rebalance period
\* (calendar month) carry the same signals.
C1_SamePeriodSameSignal ==
  \A r \in DOMAIN pc : Returned(r) =>
    \A t1 \in Rows, t2 \in Rows, i \in Sids :
      (/\ period(index[t1]) = period(index[t2])
       /\ Known(signals[r][t1][i]) /\ Known(signals[r][t2][i]))
        => signals[r][t1][i] = signals[r][t2][i]

\* C1 amended: the returned panel is constant between period-end labels: two
\* dates d1 < d2 carry the same signals (or are both unknown) unless the last
\* calendar day of some period lies in (d1, d2].  A period end that is itself
\* a date of the calendar already carries the new value.
C1_ConstantBetweenPeriodEnds ==
  \A r \in DOMAIN pc : Returned(r) =>
    \A t1 \in Rows, t2 \in Rows :
      (t1 < t2 /\ ~\E m \in 0..(2 * NumDates) :
                     /\ index[t1] < (m + 1) * DaysPerMonth
                     /\ (m + 1) * DaysPerMonth <= index[t2])
        => signals[r][t1] = signals[r][t2]

\* A held, non-neutral signal: two dates with no period end between them
\* carry the same +1, and an earlier date carries something else.
C1_Witness ==
  \E t0 \in Rows, t1 \in Rows, t2 \in Rows, i \in Sids :
    /\ Returned(1) /\ t0 < t1 /\ t1 < t2
    /\ period(index[t1]) = period(index[t2])
    /\ signals[1][t1][i] = <<1>> /\ signals[1][t2][i] = <<1>>
    /\ signals[1][t0][i] = <<0>>

PctMode == self.TOP_N_PCT # None
CountMode == self.TOP_N_PCT = None /\ self.TOP_N_COUNT # None

\* C3 as stated, on the dates whose signals are known: the number of +1 and
\* the number of -1 are each TOP_N_COUNT in count mode, and each TOP_N_PCT
\* percent of the instruments, within rounding, in percentile mode.
C3_CountsMatchSetting ==
  \A r \in DOMAIN pc : Returned(r) =>
    \A t \in Rows : \E row \in {signals[r][t]} :
      (\A i \in Sids : Known(row[i])) =>
        \A v \in {1, -1} : \E k \in {CountOf(row, v)} :
          /\ CountMode => k = self.TOP_N_COUNT[1]
          /\ PctMode =>
               /\ (k - 1) * PCT_DEN < self.TOP_N_PCT[1] * Cardinality(Sids)
               /\ self.TOP_N_PCT[1] * Cardinality(Sids) < (k + 1) * PCT_DEN

\* The most instruments either side can hold among n ranked ones with
\* pairwise distinct scores.
Quota(n) ==
  IF PctMode THEN (self.TOP_N_PCT[1] * n) \div PCT_DEN
  ELSE IF self.TOP_N_COUNT[1] < n THEN self.TOP_N_COUNT[1] ELSE n

\* C3 amended: on a date whose signals are known, held from a rebalance row
\* on which n instruments have a known momentum score and no two of these
\* scores are equal, the number of +1 and the number of -1 are each at most
\* the quota (min(TOP_N_COUNT, n) in count mode, floor(TOP_N_PCT*n/100) in
\* percentile mode); each equals the quota when moreover no instrument's
\* weekly return on that row breaches the escape limit, twice the quota is at
\* most n, and neither LONG_ONLY nor SHORT_ONLY is set.
C3_CountsWithinQuota ==
  \A r \in DOMAIN pc : Returned(r) =>
    \A t0 \in {HeldFrom(t) : t \in Rows} \ {0} :
      \E ms \in {ScoresAt(r, t0)} :
        NoTies(ms) =>
          \E q \in {Quota(Cardinality(Ranked(ms)))} :
            \A t \in {u \in Rows : HeldFrom(u) = t0}, v \in {1, -1} :
              \E k \in {CountOf(signals[r][t], v)} :
                /\ k <= q
                /\ (/\ \A i \in Sids : /\ ~WeeklyAbove(prices[r], i, t0)
                                       /\ ~WeeklyBelow(prices[r], i, t0)
                    /\ 2 * q <= Cardinality(Ranked(ms))
                    /\ ~self.LONG_ONLY /\ ~self.SHORT_ONLY)
                   => k = q

\* Count mode, three ranked instruments without ties, one +1 and one -1.
C3_Witness ==
  \E t \in Rows : \E t0 \in {IF Returned(1) THEN HeldFrom(t) ELSE 0} :
    /\ t0 # 0 /\ CountMode /\ self.TOP_N_COUNT = <<1>>
    /\ ~self.LONG_ONLY /\ ~self.SHORT_ONLY
    /\ NoTies(ScoresAt(1, t0)) /\ Ranked(ScoresAt(1, t0)) = Sids
    /\ CountOf(signals[1][t], 1) = 1 /\ CountOf(signals[1][t], -1) = 1

\* ---- C4 -----------------------------------------------------------------
\* C4: every cell of the panel prices_to_signals returns is an integer in
\* {-1, 0, 1}, never an unknown value.
C4_IntegerSignals ==
  \A r \in DOMAIN pc : Returned(r) =>
    \A t \in Rows, i \in Sids : signals[r][t][i] \in {<<-1>>, <<0>>, <<1>>}

\* ---- C5 -----------------------------------------------------------------
\* C5: with both TOP_N_PCT and TOP_N_COUNT set, or with neither, a call of
\* prices_to_signals raises and returns no panel.
C5_FailsFast ==
  \A r \in DOMAIN pc :
    (/\ pc[r] # "ready"
     /\ (self.TOP_N_PCT = None) = (self.TOP_N_COUNT = None))
      => pc[r] = "raised"

\* ---- C9 -----------------------------------------------------------------
ExactlyOneMode == (self.TOP_N_PCT = None) # (self.TOP_N_COUNT = None)

Overlap(ms) ==
  \E i \in Sids : candidates(self, ms, FALSE, i) /\ candidates(self, ms, TRUE, i)

\* C9 as stated: with exactly one selection mode set, on a date whose ranked
\* momentum scores are pairwise distinct no instrument is both a long and a
\* short candidate.
C9_DisjointCandidates ==
  \A r \in DOMAIN pc : (Returned(r) /\ ExactlyOneMode) =>
    \A t \in Rows : \E ms \in {ScoresAt(r, t)} :
      NoTies(ms) => ~Overlap(ms)

\* C9 amended: ... provided the threshold covers at most half of the ranked
\* instruments: TOP_N_PCT <= 50, or 2 * TOP_N_COUNT <= the number of
\* instruments with a known score that date.
C9_DisjointWithinHalf ==
  \A r \in DOMAIN pc : (Returned(r) /\ ExactlyOneMode) =>
    \A t \in Rows : \E ms \in {ScoresAt(r, t)} :
      (/\ NoTies(ms)
       /\ PctMode => self.TOP_N_PCT[1] <= 50
       /\ CountMode => 2 * self.TOP_N_COUNT[1] <= Cardinality(Ranked(ms)))
        => ~Overlap(ms)

\* Three ranked instruments without ties, a long and a short candidate.
C9_Witness ==
  /\ Returned(1) /\ ExactlyOneMode
  /\ \E t \in Rows : \E ms \in {ScoresAt(1, t)} :
       /\ NoTies(ms) /\ Ranked(ms) = Sids
       /\ PctMode => self.TOP_N_PCT[1] <= 50
       /\ CountMode => 2 * self.TOP_N_COUNT[1] <= Cardinality(Ranked(ms))
       /\ \E i \in Sids, j \in Sids :
            candidates(self, ms, FALSE, i) /\ candidates(self, ms, TRUE, j)

\* ---- C6 -----------------------------------------------------------------
\* Equality of two rational cells, both missing or equal as fractions.
SameCell(x, y) ==
  IF Known(x) /\ Known(y) THEN x[1] * y[2] = y[1] * x[2] ELSE x = y

LagDone == 1 \in DOMAIN pc /\ pc[1] = "gross_returns"

MaxInterval == IF interval_return > interval_vol THEN interval_return ELSE interval_vol

MomentumDone == 1 \in DOMAIN pc /\ pc[1] = "returned" /\ momentum # <<>>

BothReturned == Returned(1) /\ Returned(2)

OnlyBenchmarkDiffers ==
  \A i \in Sids \ {_SID_SNP500} : prices[1][i] = prices[2][i]

\* C8 as stated: two panels that differ only in the benchmark's closes give
\* every other instrument the same signal on every date.
C8_BenchmarkNonInterference ==
  (BothReturned /\ OnlyBenchmarkDiffers) =>
    \A t \in Rows, i \in Sids \ {_SID_SNP500} : signals[1][t][i] = signals[2][t][i]

\* Two scores of equal value: both unknown, or both known and neither below
\* the other.
SameScore(s1, s2) ==
  IF Known(s1) /\ Known(s2) THEN CmpScore(s1, s2, self.VOLATILITY_WINDOW) = 0
  ELSE s1 = s2

\* C8 amended: the benchmark's return series is never read, but its closes
\* are ranked with the others.  Two panels that differ only in the
\* benchmark's closes give every other instrument the same signal on every
\* date for which the benchmark's momentum score on the rebalance row the
\* date is held from has the same value in both panels.
C8_BenchmarkOnlyThroughScore ==
  (BothReturned /\ OnlyBenchmarkDiffers) =>
    \A t \in Rows : \E t0 \in {HeldFrom(t)} :
      (t0 = 0 \/ SameScore(ScoresAt(1, t0)[_SID_SNP500], ScoresAt(2, t0)[_SID_SNP500]))
        => \A i \in Sids \ {_SID_SNP500} : signals[1][t][i] = signals[2][t][i]

\* The benchmark's closes differ on a rebalance row and before it, its score
\* there does not, and another instrument holds a +1 from that row.
C8_Witness ==
  /\ BothReturned /\ OnlyBenchmarkDiffers
  /\ \E t \in Rows : \E t0 \in {HeldFrom(t)} :
       /\ t0 # 0
       /\ prices[1][_SID_SNP500][t0] # prices[2][_SID_SNP500][t0]
       /\ Known(ScoresAt(1, t0)[_SID_SNP500])
       /\ SameScore(ScoresAt(1, t0)[_SID_SNP500], ScoresAt(2, t0)[_SID_SNP500])
       /\ \E i \in Sids \ {_SID_SNP500} :
            signals[1][t][i] = <<1>> /\ signals[2][t][i] = <<1>>

\* ---- C10 ----------------------------------------------------------------
AgreeUpTo(t) == \A i \in Sids, u \in 1..t : prices[1][i][u] = prices[2][i][u]

\* C10: the signals of a date depend only on prices dated on or before it:
\* two panels over the same calendar that agree on every date up to d give
\* every instrument the same signal at d.
C10_NoLookAhead ==
  BothReturned =>
    \A t \in Rows : AgreeUpTo(t) => signals[1][t] = signals[2][t]

\* The panels part after a date that holds a non-neutral signal, and the
\* signals part later.
C10_Witness ==
  /\ BothReturned
  /\ \E t \in Rows, u \in Rows, i \in Sids :
       /\ t < u /\ AgreeUpTo(t) /\ ~AgreeUpTo(t + 1)
       /\ signals[1][t][i] \in {<<1>>, <<-1>>}
       /\ signals[1][u] # signals[2][u]

====
